---- MODULE Spec2Model ----
(***************************************************************************)
(* Model of playwright_is_located: layout and viewport predicates computed *)
(* from bounding boxes that a locator (the measurement collaborator)       *)
(* returns asynchronously.                                                 *)
(*                                                                         *)
(* Pixels are integers.  Every other number (a ratio, a half pixel) is an  *)
(* exact fraction [num, den] with den > 0.  An optional option is <<>>     *)
(* when it is undefined and <<v>> when it is set to v.  A bounding box or  *)
(* viewport size is a tagged record: present = FALSE stands for null.      *)
(***************************************************************************)
EXTENDS Integers, Sequences, FiniteSets, TLC

VARIABLES op, args, pc, requests, scroll, pending, arrived, boxes, viewport, result

vars == <<op, args, pc, requests, scroll, pending, arrived, boxes, viewport, result>>

----------------------------------------------------------------------------
(* Bounds of the model *)

MaxCoord == 2
MaxView == 3
MaxPad == 1
MaxTol == 1
MaxGap == 1
RatioDen == 2
MaxLen == 3

----------------------------------------------------------------------------
(* Numbers *)

Max(a, b) == IF a >= b THEN a ELSE b
Min(a, b) == IF a <= b THEN a ELSE b

Frac(n, d) == [num |-> n, den |-> d]
FInt(n) == Frac(n, 1)
FAdd(f, g) == Frac(f.num * g.den + g.num * f.den, f.den * g.den)
FSub(f, g) == Frac(f.num * g.den - g.num * f.den, f.den * g.den)
FAbs(f) == Frac(IF f.num < 0 THEN -f.num ELSE f.num, f.den)
FLe(f, g) == f.num * g.den <= g.num * f.den
FGe(f, g) == f.num * g.den >= g.num * f.den
FLt(f, g) == f.num * g.den < g.num * f.den
FMax(f, g) == IF FGe(f, g) THEN f ELSE g
FMin(f, g) == IF FLe(f, g) THEN f ELSE g

(* optional values: options.x ?? d, and destructuring defaults *)
Undefined == <<>>
Some(v) == <<v>>
Coalesce(o, d) == IF o = Undefined THEN d ELSE o[1]

----------------------------------------------------------------------------
(* types.ts *)

Box(x, y, w, h) == [present |-> TRUE, x |-> x, y |-> y, width |-> w, height |-> h]
NullBox == [present |-> FALSE, x |-> 0, y |-> 0, width |-> 0, height |-> 0]

Viewport(w, h) == [present |-> TRUE, width |-> w, height |-> h]
NullViewport == [present |-> FALSE, width |-> 0, height |-> 0]

Directions == {"left", "right", "above", "below"}
Orders == {"leftToRight", "rightToLeft", "topToBottom", "bottomToTop"}

(* TRUE iff assertRatio01 returns normally (FALSE: it throws) *)
assertRatio01(v) == FGe(v, FInt(0)) /\ FLe(v, FInt(1))

(* TRUE iff assertNonNegative returns normally (FALSE: it throws) *)
assertNonNegative(v) == ~(v < 0)

----------------------------------------------------------------------------
(* geometry *)

area(b) == Max(0, b.width) * Max(0, b.height)

(* mutant of right: the width is left out *)
rightIgnoresWidth(b) == b.x

right(b) == b.x + b.width

bottom(b) == b.y + b.height

clampVisible(viewW, viewH, b) ==
  LET x1 == Max(0, b.x)
      y1 == Max(0, b.y)
      x2 == Min(right(b), Max(0, viewW))
      y2 == Min(bottom(b), Max(0, viewH))
  IN  Box(x1, y1, Max(0, x2 - x1), Max(0, y2 - y1))

overlapLen(a1, a2, b1, b2) == Max(0, Min(a2, b2) - Max(a1, b1))

overlapRatio1D(a1, a2, b1, b2) ==
  LET ov == overlapLen(a1, a2, b1, b2)
      len == Min(a2 - a1, b2 - b1)
  IN  IF len > 0 THEN Frac(ov, len) ELSE FInt(0)

intersect(a, b) ==
  LET x1 == Max(a.x, b.x)
      y1 == Max(a.y, b.y)
      x2 == Min(right(a), right(b))
      y2 == Min(bottom(a), bottom(b))
  IN  Box(x1, y1, Max(0, x2 - x1), Max(0, y2 - y1))

----------------------------------------------------------------------------
(* comparison helpers of the relationship engine *)

ge(a, b, tol) == a + tol >= b

le(a, b, tol) == a <= b + tol

within(v, t, tol) == FLe(FAbs(FSub(v, t)), tol)

(* mutant of mapLogical: the writing direction is not consulted *)
mapLogicalIgnoresWriting(direction, opts) ==
  IF opts.logical = Undefined THEN direction
  ELSE IF direction \in {"left", "right"}
       THEN (IF opts.logical[1] = "start" THEN "left" ELSE "right")
       ELSE direction

mapLogical(direction, opts) ==
  IF opts.logical = Undefined THEN direction
  ELSE LET writing == Coalesce(opts.writingDirection, "ltr")
       IN  IF direction \in {"left", "right"}
           THEN CASE opts.logical[1] = "start" ->
                       (IF writing = "rtl" THEN "right" ELSE "left")
                  [] opts.logical[1] = "end" ->
                       (IF writing = "rtl" THEN "left" ELSE "right")
                  [] OTHER -> direction
           ELSE direction

----------------------------------------------------------------------------
(* Results of a call, and the requests made to the collaborator *)

Pending == [kind |-> "pending", bool |-> FALSE, num |-> FInt(0), label |-> ""]
Bool(b) == [kind |-> "boolean", bool |-> b, num |-> FInt(0), label |-> ""]
Number(f) == [kind |-> "number", bool |-> FALSE, num |-> f, label |-> ""]
Null == [kind |-> "null", bool |-> FALSE, num |-> FInt(0), label |-> ""]
Throw(l) == [kind |-> "error", bool |-> FALSE, num |-> FInt(0), label |-> l]

Request(kind, target) == [kind |-> kind, target |-> target]

NoArgs == [locators |-> 0]

Init ==
  /\ op = "none"
  /\ args = NoArgs
  /\ pc = "idle"
  /\ requests = <<>>
  /\ scroll = "none"
  /\ pending = {}
  /\ arrived = <<>>
  /\ boxes = <<>>
  /\ viewport = NullViewport
  /\ result = Pending

----------------------------------------------------------------------------
(* isInViewport *)

(* mutant of isInViewportChecks: threshold is validated in every mode *)
isInViewportChecksEveryMode(o) ==
  IF ~assertNonNegative(o.padding) THEN Throw("padding")
  ELSE IF ~assertRatio01(o.threshold) THEN Throw("threshold")
  ELSE Pending

(* the validation of isInViewport: Pending when it passes *)
isInViewportChecks(o) ==
  IF ~assertNonNegative(o.padding) THEN Throw("padding")
  ELSE IF ~o.fullyVisible /\ ~assertRatio01(o.threshold) THEN Throw("threshold")
  ELSE Pending

(* mutant of isInViewportVerdict: the box is clipped without the shift by padding *)
isInViewportVerdictUnshifted(box, vp, o) ==
  LET vpW == vp.width - o.padding * 2
      vpH == vp.height - o.padding * 2
      visible == clampVisible(vpW, vpH, box)
      ratio == Frac(area(visible), area(box))
  IN  IF vpW <= 0 \/ vpH <= 0 THEN Bool(FALSE)
      ELSE IF o.fullyVisible
           THEN Bool(/\ box.x >= o.padding
                     /\ box.y >= o.padding
                     /\ right(box) <= vp.width - o.padding
                     /\ bottom(box) <= vp.height - o.padding)
           ELSE Bool(FGe(ratio, o.threshold))

(* mutant of isInViewportVerdict: a box with nothing visible is never in the viewport *)
isInViewportVerdictNeedsVisible(box, vp, o) ==
  LET vpW == vp.width - o.padding * 2
      vpH == vp.height - o.padding * 2
      shifted == Box(box.x - o.padding, box.y - o.padding, box.width, box.height)
      visible == clampVisible(vpW, vpH, shifted)
      ratio == Frac(area(visible), area(box))
  IN  IF vpW <= 0 \/ vpH <= 0 THEN Bool(FALSE)
      ELSE IF o.fullyVisible
           THEN Bool(/\ box.x >= o.padding
                     /\ box.y >= o.padding
                     /\ right(box) <= vp.width - o.padding
                     /\ bottom(box) <= vp.height - o.padding)
           ELSE Bool(area(visible) > 0 /\ FGe(ratio, o.threshold))

(* the verdict of isInViewport on a box of positive area and a viewport *)
isInViewportVerdict(box, vp, o) ==
  LET vpW == vp.width - o.padding * 2
      vpH == vp.height - o.padding * 2
      shifted == Box(box.x - o.padding, box.y - o.padding, box.width, box.height)
      visible == clampVisible(vpW, vpH, shifted)
      ratio == Frac(area(visible), area(box))
  IN  IF vpW <= 0 \/ vpH <= 0 THEN Bool(FALSE)
      ELSE IF o.fullyVisible
           THEN Bool(/\ box.x >= o.padding
                     /\ box.y >= o.padding
                     /\ right(box) <= vp.width - o.padding
                     /\ bottom(box) <= vp.height - o.padding)
           ELSE Bool(FGe(ratio, o.threshold))

(* the part of isInViewport after both measurements are present *)
isInViewportTail(box, vp, o) ==
  IF isInViewportChecks(o) # Pending THEN isInViewportChecks(o)
  ELSE isInViewportVerdict(box, vp, o)

IsInViewportCall(optionSet) ==
  /\ pc = "idle"
  /\ \E options \in optionSet, canScroll \in BOOLEAN :
       LET o == [fullyVisible |-> Coalesce(options.fullyVisible, FALSE),
                 threshold |-> Coalesce(options.threshold, FInt(0)),
                 padding |-> Coalesce(options.padding, 0),
                 scrollIntoView |-> Coalesce(options.scrollIntoView, FALSE),
                 canScroll |-> canScroll]
       IN  /\ op' = "isInViewport"
           /\ args' = o
           /\ IF o.scrollIntoView /\ canScroll
              THEN /\ requests' = <<Request("scrollIntoViewIfNeeded", 1)>>
                   /\ scroll' = "pending"
                   /\ pc' = "awaitScroll"
              ELSE /\ requests' = <<Request("boundingBox", 1)>>
                   /\ scroll' = "none"
                   /\ pc' = "awaitBox"
  /\ boxes' = <<>>
  /\ viewport' = NullViewport
  /\ result' = Pending
  /\ UNCHANGED <<pending, arrived>>

(* mutant of ScrollSettle: a rejected scroll is swallowed and measuring goes on *)
ScrollSettleMeasuresAnyway ==
  /\ pc = "awaitScroll"
  /\ \E resolved \in BOOLEAN :
       scroll' = IF resolved THEN "resolved" ELSE "rejected"
  /\ requests' = Append(requests, Request("boundingBox", 1))
  /\ pc' = "awaitBox"
  /\ UNCHANGED <<op, args, pending, arrived, boxes, viewport, result>>

(* the scroll promise settles: it resolves, or rejects (a timeout included) *)
ScrollSettle ==
  /\ pc = "awaitScroll"
  /\ \E resolved \in BOOLEAN :
       IF resolved
       THEN /\ scroll' = "resolved"
            /\ requests' = Append(requests, Request("boundingBox", 1))
            /\ pc' = "awaitBox"
            /\ result' = result
       ELSE /\ scroll' = "rejected"
            /\ result' = Bool(FALSE)
            /\ pc' = "done"
            /\ requests' = requests
  /\ UNCHANGED <<op, args, pending, arrived, boxes, viewport>>

IsInViewportBox(boxSet) ==
  /\ pc = "awaitBox"
  /\ op = "isInViewport"
  /\ \E box \in boxSet \cup {NullBox}, hasPage \in BOOLEAN :
       /\ boxes' = <<box>>
       /\ IF ~box.present \/ area(box) <= 0
          THEN /\ result' = Bool(FALSE)
               /\ pc' = "done"
               /\ requests' = requests
          ELSE IF hasPage
          THEN /\ requests' = Append(requests, Request("viewportSize", 1))
               /\ pc' = "awaitViewport"
               /\ result' = result
          ELSE /\ result' = Bool(FALSE)
               /\ pc' = "done"
               /\ requests' = requests
  /\ UNCHANGED <<op, args, scroll, pending, arrived, viewport>>

IsInViewportViewport(viewSet) ==
  /\ pc = "awaitViewport"
  /\ op = "isInViewport"
  /\ \E vp \in viewSet \cup {NullViewport} :
       /\ viewport' = vp
       /\ result' = IF ~vp.present THEN Bool(FALSE)
                    ELSE isInViewportTail(boxes[1], vp, args)
  /\ pc' = "done"
  /\ UNCHANGED <<op, args, requests, scroll, pending, arrived, boxes>>

----------------------------------------------------------------------------
(* visibleAreaRatio *)

visibleAreaRatioTail(box, vp) ==
  IF ~box.present \/ ~vp.present \/ area(box) = 0 THEN Number(FInt(0))
  ELSE LET vis == clampVisible(vp.width, vp.height, box)
       IN  Number(FMin(FInt(1), FMax(FInt(0), Frac(area(vis), area(box)))))

VisibleAreaRatioCall ==
  /\ pc = "idle"
  /\ op' = "visibleAreaRatio"
  /\ args' = NoArgs
  /\ requests' = <<Request("boundingBox", 1)>>
  /\ pc' = "awaitBox"
  /\ boxes' = <<>>
  /\ viewport' = NullViewport
  /\ result' = Pending
  /\ UNCHANGED <<scroll, pending, arrived>>

VisibleAreaRatioBox(boxSet) ==
  /\ pc = "awaitBox"
  /\ op = "visibleAreaRatio"
  /\ \E box \in boxSet \cup {NullBox}, hasPage \in BOOLEAN :
       /\ boxes' = <<box>>
       /\ IF hasPage
          THEN /\ requests' = Append(requests, Request("viewportSize", 1))
               /\ pc' = "awaitViewport"
               /\ result' = result
          ELSE /\ result' = visibleAreaRatioTail(box, NullViewport)
               /\ pc' = "done"
               /\ requests' = requests
  /\ UNCHANGED <<op, args, scroll, pending, arrived, viewport>>

VisibleAreaRatioViewport(viewSet) ==
  /\ pc = "awaitViewport"
  /\ op = "visibleAreaRatio"
  /\ \E vp \in viewSet \cup {NullViewport} :
       /\ viewport' = vp
       /\ result' = visibleAreaRatioTail(boxes[1], vp)
  /\ pc' = "done"
  /\ UNCHANGED <<op, args, requests, scroll, pending, arrived, boxes>>

----------------------------------------------------------------------------
(* Promise.all over the boundingBox() promises of a call *)

(* mutant of PromiseAll: the results are listed in the order they arrived *)
PromiseAllByArrival(settled, order) == [k \in 1..Len(settled) |-> settled[order[k]]]

(* the results array of Promise.all: one entry per input promise, by index *)
PromiseAll(settled, order) == settled

(* Promise.all resolves when the last of its promises does *)
AllSettled(waiting, i) == waiting = {i}

(* locators.map(l => l.boundingBox()): every request is made, then awaited *)
FanOut(n) ==
  /\ requests' = [k \in 1..n |-> Request("boundingBox", k)]
  /\ pending' = 1..n
  /\ arrived' = <<>>
  /\ boxes' = [k \in 1..n |-> NullBox]
  /\ pc' = "awaitAll"
  /\ result' = Pending
  /\ UNCHANGED <<scroll, viewport>>

(* a usage error thrown before any request *)
Reject(error) ==
  /\ requests' = <<>>
  /\ pending' = {}
  /\ arrived' = <<>>
  /\ boxes' = <<>>
  /\ pc' = "done"
  /\ result' = error
  /\ UNCHANGED <<scroll, viewport>>

(* one boundingBox() promise resolves while others are outstanding *)
BoundingBoxResolve(boxSet) ==
  /\ pc = "awaitAll"
  /\ \E i \in pending, box \in boxSet \cup {NullBox} :
       /\ ~AllSettled(pending, i)
       /\ boxes' = [boxes EXCEPT ![i] = box]
       /\ pending' = pending \ {i}
       /\ arrived' = Append(arrived, i)
  /\ UNCHANGED <<op, args, pc, requests, scroll, viewport, result>>

(* the last boundingBox() promise resolves and the awaiting call continues *)
FanIn(boxSet, name, Continue(_)) ==
  /\ pc = "awaitAll"
  /\ op = name
  /\ \E i \in pending, box \in boxSet \cup {NullBox} :
       /\ AllSettled(pending, i)
       /\ LET settled == [boxes EXCEPT ![i] = box]
          IN  /\ boxes' = settled
              /\ result' = Continue(PromiseAll(settled, Append(arrived, i)))
       /\ pending' = pending \ {i}
       /\ arrived' = Append(arrived, i)
  /\ pc' = "done"
  /\ UNCHANGED <<op, args, requests, scroll, viewport>>

----------------------------------------------------------------------------
(* relativePosition *)

(* mutant of relativePositionChecks: overlapRatio is not validated *)
relativePositionChecksGapOnly(options) ==
  IF options.gap # Undefined /\ ~assertNonNegative(options.gap[1])
  THEN Throw("gap")
  ELSE Pending

relativePositionChecks(options) ==
  IF options.gap # Undefined /\ ~assertNonNegative(options.gap[1])
  THEN Throw("gap")
  ELSE IF options.overlapRatio # Undefined /\ ~assertRatio01(options.overlapRatio[1])
  THEN Throw("overlapRatio")
  ELSE Pending

relativePositionTail(A, B, direction, options) ==
  IF ~A.present \/ ~B.present THEN Bool(FALSE)
  ELSE
    LET tol == Coalesce(options.tolerance, 0)
        gap == Coalesce(options.gap, 0)
        needOv == Coalesce(options.overlapRatio, FInt(0))
        dir == mapLogical(direction, options)
        vOv == overlapRatio1D(A.y, bottom(A), B.y, bottom(B))
        hOv == overlapRatio1D(A.x, right(A), B.x, right(B))
    IN  CASE dir = "left" ->
               Bool(le(right(A), B.x - gap, tol) /\ FGe(FAdd(vOv, FInt(tol)), needOv))
          [] dir = "right" ->
               Bool(ge(A.x, right(B) + gap, -tol) /\ FGe(FAdd(vOv, FInt(tol)), needOv))
          [] dir = "above" ->
               Bool(le(bottom(A), B.y - gap, tol) /\ FGe(FAdd(hOv, FInt(tol)), needOv))
          [] dir = "below" ->
               Bool(ge(A.y, bottom(B) + gap, -tol) /\ FGe(FAdd(hOv, FInt(tol)), needOv))
          [] OTHER -> Bool(FALSE)

RelativePositionCall(directionSet, optionSet) ==
  /\ pc = "idle"
  /\ op' = "relativePosition"
  /\ \E direction \in directionSet, options \in optionSet :
       /\ args' = [direction |-> direction, options |-> options]
       /\ IF relativePositionChecks(options) # Pending
          THEN Reject(relativePositionChecks(options))
          ELSE FanOut(2)

RelativePositionResume(boxSet) ==
  FanIn(boxSet, "relativePosition",
        LAMBDA r : relativePositionTail(r[1], r[2], args.direction, args.options))

----------------------------------------------------------------------------
(* areAligned *)

(* mutant of areAlignedTail: the tolerance left out counts as 0 *)
areAlignedTailDefaultZero(A, B, options) ==
  IF ~A.present \/ ~B.present THEN Bool(FALSE)
  ELSE
    LET tolerance == FInt(Coalesce(options.tolerance, 0))
    IN  CASE options.axis = "x" ->
               IF options.mode = "edges"
               THEN Bool(/\ within(FInt(A.y), FInt(B.y), tolerance)
                         /\ within(FInt(bottom(A)), FInt(bottom(B)), tolerance))
               ELSE Bool(within(FAdd(FInt(A.y), Frac(A.height, 2)),
                                FAdd(FInt(B.y), Frac(B.height, 2)), tolerance))
          [] options.axis = "y" ->
               IF options.mode = "edges"
               THEN Bool(/\ within(FInt(A.x), FInt(B.x), tolerance)
                         /\ within(FInt(right(A)), FInt(right(B)), tolerance))
               ELSE Bool(within(FAdd(FInt(A.x), Frac(A.width, 2)),
                                FAdd(FInt(B.x), Frac(B.width, 2)), tolerance))
          [] OTHER -> Bool(FALSE)

areAlignedTail(A, B, options) ==
  IF ~A.present \/ ~B.present THEN Bool(FALSE)
  ELSE
    LET tolerance == FInt(Coalesce(options.tolerance, 1))
    IN  CASE options.axis = "x" ->
               IF options.mode = "edges"
               THEN Bool(/\ within(FInt(A.y), FInt(B.y), tolerance)
                         /\ within(FInt(bottom(A)), FInt(bottom(B)), tolerance))
               ELSE Bool(within(FAdd(FInt(A.y), Frac(A.height, 2)),
                                FAdd(FInt(B.y), Frac(B.height, 2)), tolerance))
          [] options.axis = "y" ->
               IF options.mode = "edges"
               THEN Bool(/\ within(FInt(A.x), FInt(B.x), tolerance)
                         /\ within(FInt(right(A)), FInt(right(B)), tolerance))
               ELSE Bool(within(FAdd(FInt(A.x), Frac(A.width, 2)),
                                FAdd(FInt(B.x), Frac(B.width, 2)), tolerance))
          [] OTHER -> Bool(FALSE)

AreAlignedCall(optionSet) ==
  /\ pc = "idle"
  /\ op' = "areAligned"
  /\ \E options \in optionSet : args' = [options |-> options]
  /\ FanOut(2)

AreAlignedResume(boxSet) ==
  FanIn(boxSet, "areAligned", LAMBDA r : areAlignedTail(r[1], r[2], args.options))

----------------------------------------------------------------------------
(* edgeDistance *)

(* mutant of edgeDistanceTail: a null box is read as a box at the origin *)
edgeDistanceTailNoNullCheck(A, B, direction) ==
  CASE direction = "left" -> Number(FInt(B.x - right(A)))
    [] direction = "right" -> Number(FInt(A.x - right(B)))
    [] direction = "above" -> Number(FInt(B.y - bottom(A)))
    [] direction = "below" -> Number(FInt(A.y - bottom(B)))
    [] OTHER -> Null

(* mutant of edgeDistanceTail: the distance loses its sign *)
edgeDistanceTailUnsigned(A, B, direction) ==
  IF ~A.present \/ ~B.present THEN Null
  ELSE CASE direction = "left" -> Number(FAbs(FInt(B.x - right(A))))
         [] direction = "right" -> Number(FAbs(FInt(A.x - right(B))))
         [] direction = "above" -> Number(FAbs(FInt(B.y - bottom(A))))
         [] direction = "below" -> Number(FAbs(FInt(A.y - bottom(B))))
         [] OTHER -> Null

edgeDistanceTail(A, B, direction) ==
  IF ~A.present \/ ~B.present THEN Null
  ELSE CASE direction = "left" -> Number(FInt(B.x - right(A)))
         [] direction = "right" -> Number(FInt(A.x - right(B)))
         [] direction = "above" -> Number(FInt(B.y - bottom(A)))
         [] direction = "below" -> Number(FInt(A.y - bottom(B)))
         [] OTHER -> Null

EdgeDistanceCall(directionSet) ==
  /\ pc = "idle"
  /\ op' = "edgeDistance"
  /\ \E direction \in directionSet : args' = [direction |-> direction]
  /\ FanOut(2)

EdgeDistanceResume(boxSet) ==
  FanIn(boxSet, "edgeDistance", LAMBDA r : edgeDistanceTail(r[1], r[2], args.direction))

----------------------------------------------------------------------------
(* inOrder *)

inOrderTail(b, order, tolerance) ==
  IF \E i \in 1..Len(b) : ~b[i].present THEN Bool(FALSE)
  ELSE CASE order = "leftToRight" ->
              Bool(\A i \in 2..Len(b) : le(right(b[i - 1]), b[i].x, tolerance))
         [] order = "rightToLeft" ->
              Bool(\A i \in 2..Len(b) : ge(b[i - 1].x, right(b[i]), -tolerance))
         [] order = "topToBottom" ->
              Bool(\A i \in 2..Len(b) : le(bottom(b[i - 1]), b[i].y, tolerance))
         [] order = "bottomToTop" ->
              Bool(\A i \in 2..Len(b) : ge(b[i - 1].y, bottom(b[i]), -tolerance))
         [] OTHER -> Bool(FALSE)

InOrderCall(lengthSet, orderSet, toleranceSet) ==
  /\ pc = "idle"
  /\ op' = "inOrder"
  /\ \E n \in lengthSet, order \in orderSet, tolerance \in toleranceSet :
       /\ args' = [length |-> n, order |-> order, tolerance |-> Coalesce(tolerance, 0)]
       /\ FanOut(n)

InOrderResume(boxSet) ==
  \/ FanIn(boxSet, "inOrder", LAMBDA r : inOrderTail(r, args.order, args.tolerance))
  \/ /\ pc = "awaitAll"
     /\ op = "inOrder"
     /\ args.length = 0
     /\ result' = inOrderTail(PromiseAll(boxes, arrived), args.order, args.tolerance)
     /\ pc' = "done"
     /\ UNCHANGED <<op, args, requests, scroll, pending, arrived, boxes, viewport>>

----------------------------------------------------------------------------
(* intersectionAreaRatio *)

intersectionAreaRatioTail(A, B) ==
  IF ~A.present \/ ~B.present \/ area(A) = 0 THEN Number(FInt(0))
  ELSE Number(FMin(FInt(1), FMax(FInt(0), Frac(area(intersect(A, B)), area(A)))))

IntersectionAreaRatioCall ==
  /\ pc = "idle"
  /\ op' = "intersectionAreaRatio"
  /\ args' = NoArgs
  /\ FanOut(2)

IntersectionAreaRatioResume(boxSet) ==
  FanIn(boxSet, "intersectionAreaRatio", LAMBDA r : intersectionAreaRatioTail(r[1], r[2]))

(* the caller takes the result; the next call starts from nothing *)
Return ==
  /\ pc = "done"
  /\ op' = "none"
  /\ args' = NoArgs
  /\ pc' = "idle"
  /\ requests' = <<>>
  /\ scroll' = "none"
  /\ pending' = {}
  /\ arrived' = <<>>
  /\ boxes' = <<>>
  /\ viewport' = NullViewport
  /\ result' = Pending

----------------------------------------------------------------------------
(* Inputs *)

Optional(S) == {Undefined} \cup {Some(v) : v \in S}

Ratios == {Frac(k, RatioDen) : k \in -1..(RatioDen + 1)}

(* boxes inside the square [0, MaxCoord] x [0, MaxCoord], empty ones included *)
Boxes ==
  {b \in [present : {TRUE}, x : 0..MaxCoord, y : 0..MaxCoord,
          width : 0..MaxCoord, height : 0..MaxCoord] :
     right(b) <= MaxCoord /\ bottom(b) <= MaxCoord}

(* unit boxes side by side in one row *)
RowBoxes == {b \in Boxes : b.width = 1 /\ b.height = 1 /\ b.y = 0}

SquareBoxes == {b \in Boxes : b.width = b.height}

(* boxes that may start left of or above the viewport's origin *)
ViewBoxes ==
  [present : {TRUE}, x : -1..(MaxCoord - 1), y : -1..(MaxCoord - 1),
   width : 0..MaxCoord, height : 0..MaxCoord]

Viewports == [present : {TRUE}, width : 0..MaxView, height : 0..MaxView]

ViewportOptions ==
  [fullyVisible : Optional(BOOLEAN), threshold : Optional(Ratios),
   padding : Optional(-1..MaxPad), scrollIntoView : Optional(BOOLEAN)]

RelativeOptions ==
  [overlapRatio : Optional(Ratios) \ {Undefined}, gap : Optional(-1..MaxGap) \ {Undefined},
   tolerance : Optional(0..MaxTol) \ {Undefined},
   logical : {Undefined}, writingDirection : {Undefined}]

LogicalOptions ==
  [overlapRatio : {Undefined}, gap : {Undefined}, tolerance : {Undefined},
   logical : Optional({"start", "end"}), writingDirection : Optional({"ltr", "rtl"})]

AlignOptions ==
  [axis : {"x", "y"}, mode : {"edges", "centers"}, tolerance : Optional(0..MaxTol)]

(* gap 0 and tolerance 0, with the overlap ratio set or left out *)
ZeroGapOptions ==
  [overlapRatio : Optional(Ratios), gap : {Some(0)}, tolerance : {Some(0)},
   logical : {Undefined}, writingDirection : {Undefined}]

Tolerances == Optional(0..MaxTol)

Lengths == 0..MaxLen

----------------------------------------------------------------------------
(* Specifications *)

(* every operation, on a row of unit boxes *)
Next ==
  \/ IsInViewportCall(ViewportOptions)
  \/ ScrollSettle
  \/ IsInViewportBox(RowBoxes)
  \/ IsInViewportViewport(Viewports)
  \/ VisibleAreaRatioCall
  \/ VisibleAreaRatioBox(RowBoxes)
  \/ VisibleAreaRatioViewport(Viewports)
  \/ RelativePositionCall(Directions, RelativeOptions \cup LogicalOptions)
  \/ AreAlignedCall(AlignOptions)
  \/ EdgeDistanceCall(Directions)
  \/ InOrderCall(Lengths, Orders, Tolerances)
  \/ IntersectionAreaRatioCall
  \/ BoundingBoxResolve(RowBoxes)
  \/ RelativePositionResume(RowBoxes)
  \/ AreAlignedResume(RowBoxes)
  \/ EdgeDistanceResume(RowBoxes)
  \/ InOrderResume(RowBoxes)
  \/ IntersectionAreaRatioResume(RowBoxes)
  \/ Return

Spec == Init /\ [][Next]_vars

(* the viewport operations, on boxes that may leave the viewport *)
NextViewport ==
  \/ IsInViewportCall(ViewportOptions)
  \/ ScrollSettle
  \/ IsInViewportBox(ViewBoxes)
  \/ IsInViewportViewport(Viewports)
  \/ VisibleAreaRatioCall
  \/ VisibleAreaRatioBox(ViewBoxes)
  \/ VisibleAreaRatioViewport(Viewports)
  \/ Return

SpecViewport == Init /\ [][NextViewport]_vars

(* relativePosition with gap, overlapRatio and tolerance set *)
NextRelative ==
  \/ RelativePositionCall(Directions, RelativeOptions)
  \/ BoundingBoxResolve(Boxes)
  \/ RelativePositionResume(Boxes)
  \/ Return

SpecRelative == Init /\ [][NextRelative]_vars

(* relativePosition with logical directions and the other options left out *)
NextLogical ==
  \/ RelativePositionCall(Directions, LogicalOptions)
  \/ BoundingBoxResolve(Boxes)
  \/ RelativePositionResume(Boxes)
  \/ Return

SpecLogical == Init /\ [][NextLogical]_vars

(* inOrder on sequences of up to MaxLen locators with square boxes *)
NextOrder ==
  \/ InOrderCall(Lengths, Orders, Tolerances)
  \/ BoundingBoxResolve(SquareBoxes)
  \/ InOrderResume(SquareBoxes)
  \/ Return

SpecOrder == Init /\ [][NextOrder]_vars

(* edgeDistance in the four directions *)
NextEdge ==
  \/ EdgeDistanceCall(Directions)
  \/ BoundingBoxResolve(Boxes)
  \/ EdgeDistanceResume(Boxes)
  \/ Return

SpecEdge == Init /\ [][NextEdge]_vars

(* areAligned on both axes, by edges and by centers *)
NextAlign ==
  \/ AreAlignedCall(AlignOptions)
  \/ BoundingBoxResolve(Boxes)
  \/ AreAlignedResume(Boxes)
  \/ Return

SpecAlign == Init /\ [][NextAlign]_vars

(* relativePosition with gap 0 and tolerance 0 *)
NextZeroGap ==
  \/ RelativePositionCall(Directions, ZeroGapOptions)
  \/ BoundingBoxResolve(Boxes)
  \/ RelativePositionResume(Boxes)
  \/ Return

SpecZeroGap == Init /\ [][NextZeroGap]_vars

----------------------------------------------------------------------------
(* Properties *)

Finished(name) == op = name /\ pc = "done"

WithTolerance(options, t) == [options EXCEPT !.tolerance = Some(t)]

(* C1: in relativePosition a larger tolerance never turns a true result    *)
(* into false: a call that returned true with tolerance t1 returns true on *)
(* the same boxes, direction, gap and overlapRatio with every t2 >= t1.    *)
C1_ToleranceOnlyRelaxes ==
  (Finished("relativePosition") /\ result = Bool(TRUE)) =>
    \A t2 \in 0..MaxTol :
      t2 >= Coalesce(args.options.tolerance, 0) =>
        relativePositionTail(boxes[1], boxes[2], args.direction,
                             WithTolerance(args.options, t2)) = Bool(TRUE)

(* the relation C2 states for one adjacent pair *)
ClaimedPairInOrder(prev, next, order, tolerance) ==
  CASE order = "leftToRight" -> right(prev) <= next.x + tolerance
    [] order = "rightToLeft" -> prev.x >= right(next) - tolerance
    [] order = "topToBottom" -> bottom(prev) <= next.y + tolerance
    [] order = "bottomToTop" -> prev.y >= bottom(next) - tolerance

(* C2: inOrder returns false if a box is absent, and otherwise true iff    *)
(* every adjacent pair satisfies the relation of the order, the tolerance  *)
(* widening each comparison; sequences of 0 or 1 boxes give true.          *)
C2_InOrderRelation ==
  Finished("inOrder") =>
    result = Bool(/\ \A i \in 1..Len(boxes) : boxes[i].present
                  /\ \A i \in 2..Len(boxes) :
                       ClaimedPairInOrder(boxes[i - 1], boxes[i],
                                          args.order, args.tolerance))

BadViewportOptions ==
  \/ args.padding < 0
  \/ ~args.fullyVisible /\ (FLt(args.threshold, FInt(0)) \/ FLt(FInt(1), args.threshold))

(* C3: isInViewport called with a negative padding, or with a threshold    *)
(* outside [0,1] and fullyVisible false, ends in a usage error without     *)
(* having made any scroll, boundingBox or viewportSize request.            *)
C3_UsageErrorBeforeMeasurement ==
  (op = "isInViewport" /\ BadViewportOptions) =>
    /\ requests = <<>>
    /\ pc = "done"
    /\ result.kind = "error"

BadRelativeOptions ==
  \/ args.options.gap # Undefined /\ args.options.gap[1] < 0
  \/ /\ args.options.overlapRatio # Undefined
     /\ \/ FLt(args.options.overlapRatio[1], FInt(0))
        \/ FLt(FInt(1), args.options.overlapRatio[1])

(* C4: relativePosition called with a negative gap or an overlapRatio      *)
(* outside [0,1] ends in a usage error and makes no boundingBox request,   *)
(* whatever the locators would have answered.                              *)
C4_RelativeValidatesFirst ==
  (op = "relativePosition" /\ BadRelativeOptions) =>
    /\ requests = <<>>
    /\ pc = "done"
    /\ result.kind = "error"

C4_Witness ==
  /\ Finished("relativePosition")
  /\ args.options.gap[1] >= 0
  /\ FLt(FInt(1), args.options.overlapRatio[1])
  /\ result = Throw("overlapRatio")
  /\ requests = <<>>

(* what isInViewport answers from its measurements, the scroll left aside *)
MeasuredVerdict ==
  IF ~boxes[1].present \/ area(boxes[1]) <= 0 \/ ~viewport.present THEN Bool(FALSE)
  ELSE isInViewportTail(boxes[1], viewport, [args EXCEPT !.scrollIntoView = FALSE])

(* C5: when the scroll requested by scrollIntoView fails, isInViewport      *)
(* resolves to false, raises nothing and requests no box or viewport; when  *)
(* the locator cannot scroll, the call measures as if the option were unset.*)
C5_ScrollBestEffort ==
  /\ scroll = "rejected" =>
       /\ pc = "done"
       /\ result = Bool(FALSE)
       /\ requests = <<Request("scrollIntoViewIfNeeded", 1)>>
  /\ (op = "isInViewport" /\ args.scrollIntoView /\ ~args.canScroll) =>
       /\ scroll = "none"
       /\ requests # <<>> /\ requests[1] = Request("boundingBox", 1)
       /\ \A k \in 1..Len(requests) : requests[k].kind # "scrollIntoViewIfNeeded"
       /\ pc = "done" => result = MeasuredVerdict

C5_Witness ==
  /\ Finished("isInViewport")
  /\ args.scrollIntoView /\ args.canScroll
  /\ scroll = "rejected"
  /\ result = Bool(FALSE)

ValidOptions ==
  CASE op = "isInViewport" -> ~BadViewportOptions
    [] op = "relativePosition" -> ~BadRelativeOptions
    [] OTHER -> TRUE

(* the number of locators of the call in progress *)
Locators ==
  CASE op \in {"isInViewport", "visibleAreaRatio"} -> 1
    [] op = "inOrder" -> args.length
    [] op = "none" -> 0
    [] OTHER -> 2

BoxRequests(i) == {k \in 1..Len(requests) : requests[k] = Request("boundingBox", i)}

NegativeValue ==
  CASE op \in {"isInViewport", "relativePosition", "areAligned", "inOrder"} -> Bool(FALSE)
    [] op \in {"visibleAreaRatio", "intersectionAreaRatio"} -> Number(FInt(0))
    [] op = "edgeDistance" -> Null

FanOperations ==
  {"relativePosition", "areAligned", "edgeDistance", "intersectionAreaRatio", "inOrder"}

(* the result of a fan-out operation on the boxes of its locators, in the *)
(* order of the locators                                                  *)
ResultByLocator ==
  CASE op = "relativePosition" ->
         relativePositionTail(boxes[1], boxes[2], args.direction, args.options)
    [] op = "areAligned" -> areAlignedTail(boxes[1], boxes[2], args.options)
    [] op = "edgeDistance" -> edgeDistanceTail(boxes[1], boxes[2], args.direction)
    [] op = "intersectionAreaRatio" -> intersectionAreaRatioTail(boxes[1], boxes[2])
    [] op = "inOrder" -> inOrderTail(boxes, args.order, args.tolerance)

(* C7: a fan-out operation has issued the boundingBox request of every      *)
(* locator by the time it waits; it has a result only when every response   *)
(* has arrived; and the result is the one of the locators' boxes taken in   *)
(* the order of the locators, whatever the order of arrival.                *)
C7_FanOutFanIn ==
  (op \in FanOperations /\ result.kind # "error") =>
    /\ pc = "awaitAll" =>
         requests = [k \in 1..Locators |-> Request("boundingBox", k)]
    /\ result # Pending =>
         /\ pending = {}
         /\ {arrived[k] : k \in 1..Len(arrived)} = 1..Locators
         /\ Len(arrived) = Locators
    /\ pc = "done" => result = ResultByLocator

C7_Witness ==
  /\ Finished("relativePosition")
  /\ arrived = <<2, 1>>
  /\ boxes[1].present /\ boxes[2].present
  /\ result = Bool(TRUE)
  /\ relativePositionTail(boxes[2], boxes[1], args.direction, args.options) = Bool(FALSE)

MeasuredInViewport ==
  /\ Finished("isInViewport")
  /\ boxes # <<>> /\ boxes[1].present /\ area(boxes[1]) > 0
  /\ viewport.present

(* C8: with fullyVisible, a measured box of positive area, a viewport and  *)
(* padding >= 0, isInViewport is true iff the box lies within the viewport *)
(* inset by padding on every side, whatever the threshold, valid or not.   *)
C8_FullyVisible ==
  (MeasuredInViewport /\ args.fullyVisible /\ args.padding >= 0) =>
    result = Bool(/\ boxes[1].x >= args.padding
                  /\ boxes[1].y >= args.padding
                  /\ boxes[1].x + boxes[1].width <= viewport.width - args.padding
                  /\ boxes[1].y + boxes[1].height <= viewport.height - args.padding)

C8_Witness ==
  /\ MeasuredInViewport /\ args.fullyVisible
  /\ args.padding > 0
  /\ FLt(FInt(1), args.threshold)
  /\ result = Bool(TRUE)

ClaimedDirection(direction, options) ==
  IF options.logical = Undefined \/ direction \in {"above", "below"} THEN direction
  ELSE LET writing == IF options.writingDirection = Undefined THEN "ltr"
                      ELSE options.writingDirection[1]
       IN  IF <<options.logical[1], writing>> \in {<<"start", "ltr">>, <<"end", "rtl">>}
           THEN "left" ELSE "right"

WithoutLogical(options) == [options EXCEPT !.logical = Undefined]

(* A lies left of B: A ends where B starts or before, and they are not two *)
(* empty intervals at the same place                                       *)
PhysicallyLeft(A, B) ==
  /\ A.present /\ B.present
  /\ right(A) <= B.x
  /\ A.x < right(B)

(* C10: relativePosition evaluates the physical direction of the logical   *)
(* one (start: left under ltr, right under rtl; end the reverse; ltr by    *)
(* default; above and below unchanged; no logical: unchanged).  Hence, for *)
(* A left of B, 'left' with logical start is true under ltr and false      *)
(* under rtl.                                                              *)
C10_LogicalMapping ==
  Finished("relativePosition") =>
    /\ result = relativePositionTail(boxes[1], boxes[2],
                                     ClaimedDirection(args.direction, args.options),
                                     WithoutLogical(args.options))
    /\ ( /\ args.direction = "left"
         /\ args.options.logical = Some("start")
         /\ PhysicallyLeft(boxes[1], boxes[2]) ) =>
         result = Bool(args.options.writingDirection # Some("rtl"))

C10_Witness ==
  /\ Finished("relativePosition")
  /\ args.direction = "left"
  /\ args.options.logical = Some("start")
  /\ args.options.writingDirection = Some("rtl")
  /\ PhysicallyLeft(boxes[1], boxes[2])
  /\ result = Bool(FALSE)

----------------------------------------------------------------------------
(* edgeDistance *)

(* the distance as stated, on the subject and the reference rectangle *)
ClaimedEdgeDistance(subject, reference, direction) ==
  CASE direction = "left" -> reference.x - (subject.x + subject.width)
    [] direction = "right" -> subject.x - (reference.x + reference.width)
    [] direction = "above" -> reference.y - (subject.y + subject.height)
    [] direction = "below" -> subject.y - (reference.y + reference.height)

BothMeasured == Len(boxes) = 2 /\ boxes[1].present /\ boxes[2].present

(* C11: on two measured rectangles edgeDistance returns the signed         *)
(* distance of the direction with no tolerance (left: reference.x -        *)
(* right(subject), right: subject.x - right(reference), above and below    *)
(* likewise on y), and a positive distance to the left from A to B means a *)
(* negative distance to the left from B to A.                              *)
C11_EdgeDistanceSigned ==
  (Finished("edgeDistance") /\ BothMeasured) =>
    /\ result = Number(FInt(ClaimedEdgeDistance(boxes[1], boxes[2], args.direction)))
    /\ (args.direction = "left" /\ FLt(FInt(0), result.num)) =>
         LET back == edgeDistanceTail(boxes[2], boxes[1], "left")
         IN  back.kind = "number" /\ FLt(back.num, FInt(0))

C11_Witness ==
  /\ Finished("edgeDistance")
  /\ BothMeasured
  /\ args.direction = "left"
  /\ boxes[1].width > 0
  /\ result = Number(FInt(1))
  /\ edgeDistanceTail(boxes[2], boxes[1], "left") = Number(FInt(-2))

----------------------------------------------------------------------------
(* areAligned *)

Distance(a, b) == IF a < b THEN b - a ELSE a - b

(* alignment as stated, in half pixels; lo and size are the rectangle's    *)
(* position and extent on the axis the edges are compared on               *)
ClaimedAligned(loA, sizeA, loB, sizeB, mode, tolerance) ==
  IF mode = "edges"
  THEN /\ Distance(loA, loB) <= tolerance
       /\ Distance(loA + sizeA, loB + sizeB) <= tolerance
  ELSE Distance(2 * loA + sizeA, 2 * loB + sizeB) <= 2 * tolerance

ClaimedAreAligned(A, B, options) ==
  LET tolerance == IF options.tolerance = Undefined THEN 1 ELSE options.tolerance[1]
  IN  IF options.axis = "x"
      THEN ClaimedAligned(A.y, A.height, B.y, B.height, options.mode, tolerance)
      ELSE ClaimedAligned(A.x, A.width, B.x, B.width, options.mode, tolerance)

(* C12: on two measured rectangles areAligned is true iff, for axis x, the *)
(* tops and the bottoms (mode edges) or the vertical centers (mode         *)
(* centers) differ by at most the tolerance, for axis y the lefts and the  *)
(* rights or the horizontal centers; the tolerance defaults to 1; and      *)
(* exchanging the two rectangles does not change the result.               *)
C12_AreAligned ==
  (Finished("areAligned") /\ BothMeasured) =>
    /\ result = Bool(ClaimedAreAligned(boxes[1], boxes[2], args.options))
    /\ result = areAlignedTail(boxes[2], boxes[1], args.options)

(* heights 1 and 2 from the same top: aligned by edges within the default  *)
(* tolerance of 1                                                          *)
C12_Witness ==
  /\ Finished("areAligned")
  /\ BothMeasured
  /\ args.options = [axis |-> "x", mode |-> "edges", tolerance |-> Undefined]
  /\ boxes[1].y = boxes[2].y
  /\ boxes[1].height = 1
  /\ boxes[2].height = 2
  /\ result = Bool(TRUE)
  /\ areAlignedTail(boxes[1], boxes[2], WithTolerance(args.options, 0)) = Bool(FALSE)

----------------------------------------------------------------------------
(* relativePosition: antisymmetry *)

NonDegenerate(b) == b.present /\ b.width > 0 /\ b.height > 0

ZeroGapZeroTolerance(options) ==
  /\ options.gap = Some(0)
  /\ options.tolerance = Some(0)
  /\ options.logical = Undefined

(* C13: with gap 0 and tolerance 0, if A is left of B for relativePosition *)
(* and both rectangles have positive width and height, then B is not left  *)
(* of A.                                                                   *)
C13_LeftAntisymmetric ==
  ( /\ Finished("relativePosition")
    /\ args.direction = "left"
    /\ ZeroGapZeroTolerance(args.options)
    /\ BothMeasured
    /\ NonDegenerate(boxes[1])
    /\ NonDegenerate(boxes[2])
    /\ result = Bool(TRUE) ) =>
    relativePositionTail(boxes[2], boxes[1], "left", args.options) = Bool(FALSE)

(* A touches B from the left and they share their rows: left of B with     *)
(* only gap and tolerance given, and B not left of A                       *)
C13_Witness ==
  /\ Finished("relativePosition")
  /\ args.direction = "left"
  /\ ZeroGapZeroTolerance(args.options)
  /\ args.options.overlapRatio = Undefined
  /\ BothMeasured
  /\ NonDegenerate(boxes[1])
  /\ NonDegenerate(boxes[2])
  /\ boxes[1].x + boxes[1].width = boxes[2].x
  /\ boxes[1].y = boxes[2].y
  /\ result = Bool(TRUE)
  /\ relativePositionTail(boxes[2], boxes[1], "left", args.options) = Bool(FALSE)

----------------------------------------------------------------------------
(* isInViewport with the default threshold *)

(* no part of the box lies inside a viewport of width w and height h *)
WhollyOutside(box, w, h) ==
  \/ box.x + box.width <= 0
  \/ box.y + box.height <= 0
  \/ box.x >= w
  \/ box.y >= h

====
